---- MODULE Spec2Model ----
(***************************************************************************)
(* Room-to-recommendation pipeline of the NyumbaAI marketplace server.     *)
(*                                                                         *)
(* State: the `videos` and `videoAnalyses` tables, the object store, the   *)
(* temp directory of the demo endpoint, the lazily created database        *)
(* handle, the upload requests in flight, the background analysis task of  *)
(* every video and one polling client; and, for the functions of the      *)
(* pipeline that touch no table (price estimate, resolver, placements,     *)
(* compositor), one call with its arguments and its result.                *)
(* Every `await` of the server code is a point where other requests and    *)
(* tasks interleave, so every action below is the code between two awaits  *)
(* together with the effect of the awaited call.                           *)
(***************************************************************************)
EXTENDS Integers, Sequences, FiniteSets, TLC

VARIABLES
    dbHandle,       \* db.ts `_db`: TRUE when the drizzle handle exists
    now,            \* the last value Date.now() returned
    videos,         \* table `videos`: row id = index
    videoAnalyses,  \* table `videoAnalyses`, in insertion order
    objects,        \* object storage: the set of keys that hold an object
    tempFiles,      \* files under <cwd>/temp written by the demo endpoint
    req,            \* the upload requests: handler position, input, outcome
    task,           \* the analyzeRoomVideo run of each video id
    poll,           \* the getVideoAnalysis query of the polling client
    call            \* a call of one of the pipeline's functions that touch no
                    \* table: its arguments and, once it has returned, its result

vars ==
    <<dbHandle, now, videos, videoAnalyses, objects, tempFiles, req, task, poll, call>>

----------------------------------------------------------------------------
(* Bounds of the model *)

\* number of upload requests made in one behaviour
MaxReq == 2
\* largest value the clock is followed to
MaxClock == 2
\* number of times analyzeRoomVideo is called for one video
MaxRuns == 2

Reqs == 1..MaxReq
VideoIds == 1..MaxReq
\* the signed-in users: user 1 uploads, both users poll
Users == {1, 2}
Uploaders == {1}

----------------------------------------------------------------------------
(* Inputs *)

MB == 1024 * 1024

EntryPoints ==
    {"uploadVideo", "uploadProductImage", "uploadThumbnail", "uploadFrame",
     "analyzeRoomVideo"}

\* the size ceiling each entry point compares input.fileSize with
Ceiling(ep) ==
    CASE ep = "uploadVideo"        -> 16 * MB
      [] ep = "uploadProductImage" -> 5 * MB
      [] ep = "uploadThumbnail"    -> 2 * MB
      [] ep = "uploadFrame"        -> 2 * MB
      [] ep = "analyzeRoomVideo"   -> 50 * MB

\* declared sizes tried at each entry point: the ceiling itself and one byte more
FileSizes(ep) == {Ceiling(ep), Ceiling(ep) + 1}

\* declared MIME types tried; "none" where the input schema has no mimeType
\* (or, for uploadProductImage, where the optional field is left out)
MimeTypes(ep) ==
    CASE ep = "uploadVideo"        -> {"video/mp4", "image/png"}
      [] ep = "uploadProductImage" -> {"none", "image/png", "video/mp4"}
      [] OTHER                     -> {"none"}

----------------------------------------------------------------------------
(* Validation at the entry points *)

SizeOk_NoCheck(ep, fileSize) == TRUE

\* `if (input.fileSize > N * 1024 * 1024) throw BAD_REQUEST`
SizeOk(ep, fileSize) == ~(fileSize > Ceiling(ep))

allowedTypes == {"image/jpeg", "image/jpg", "image/png", "image/webp"}

\* uploadProductImage alone looks at the declared type; uploadVideo hands
\* input.mimeType to storagePut unexamined
TypeOk(ep, mimeType) ==
    IF ep = "uploadProductImage"
    THEN (IF mimeType = "none" THEN "image/jpeg" ELSE mimeType) \in allowedTypes
    ELSE TRUE

\* The error code the caller sees when the handler body throws `code`:
\* uploadVideo's catch rethrows the error as it is; every uploadRouter handler
\* replaces whatever was thrown by a new INTERNAL_SERVER_ERROR.
Surfaced(ep, code) ==
    IF ep = "uploadVideo" THEN code ELSE "INTERNAL_SERVER_ERROR"

----------------------------------------------------------------------------
(* db.ts *)

\* getDb(): the handle, once created, is kept; while it is missing every call
\* tries again and gets a handle or (no DATABASE_URL, drizzle() throwing) null
getDb == IF dbHandle THEN {TRUE} ELSE {TRUE, FALSE}

\* outcome of a statement sent to the database
DbOutcomes == {"ok", "throw"}

\* db.update(videos).set({status, frameUrl?}).where(id = videoId)
updateVideoStatus(videoId, status, frameUrl) ==
    [v \in DOMAIN videos |->
        IF v = videoId
        THEN [videos[v] EXCEPT !.status = status,
                               !.frameUrl = IF frameUrl THEN TRUE ELSE @]
        ELSE videos[v]]

\* the UNIQUE(videoId) constraint of videoAnalyses
UniqueViolation(videoId) ==
    \E i \in DOMAIN videoAnalyses : videoAnalyses[i].videoId = videoId

getVideoAnalysisByVideoId(videoId) ==
    \E i \in DOMAIN videoAnalyses : videoAnalyses[i].videoId = videoId

----------------------------------------------------------------------------
(* Initial state *)

NoReq ==
    [pc |-> "idle", ep |-> "none", user |-> 0, fileSize |-> 0,
     mimeType |-> "none", ts |-> 0, videoId |-> 0, code |-> "none",
     composite |-> FALSE, analysis |-> "none",
     afterImageUrl |-> "none", productPositions |-> "none"]

\* pc: the pending await; data: what invokeLLM and the parse came to; fault: the
\* step whose throw brought the run into its catch; llmCalls: the calls of invokeLLM
\* this run has made; run: how many times analyzeRoomVideo was called for the video
NoTask == [pc |-> "none", data |-> "none", fault |-> "none", llmCalls |-> 0, run |-> 0]

\* no function call under study
NoCall == [fn |-> "none"]

NoPoll ==
    [pc |-> "idle", user |-> 0, videoId |-> 0, status |-> "none",
     analysis |-> FALSE, code |-> "none"]

\* the server after start: empty tables, no request, no run
ServerIdle ==
    /\ dbHandle = FALSE
    /\ now = 0
    /\ videos = <<>>
    /\ videoAnalyses = <<>>
    /\ objects = {}
    /\ tempFiles = {}
    /\ req = [r \in Reqs |-> NoReq]
    /\ task = [v \in VideoIds |-> NoTask]
    /\ poll = NoPoll

Init == ServerIdle /\ call = NoCall

\* request slots are taken in order
Free(r) == req[r].pc = "idle" /\ (IF r = 1 THEN TRUE ELSE req[r - 1].pc # "idle")

\* the handler of request r ends by throwing `code` out of its body
Throw(r, code) ==
    [req EXCEPT ![r].pc = "thrown", ![r].code = Surfaced(req[r].ep, code)]

\* request r, so far unused, arrives at entry point ep with this input
Arrive(r, ep, user, fileSize, mimeType) ==
    [req EXCEPT ![r] = [NoReq EXCEPT !.pc = "arrived", !.ep = ep, !.user = user,
                                     !.fileSize = fileSize, !.mimeType = mimeType]]

\* Date.now(): the clock has advanced or not since it was last read
DateNow == {t \in {now, now + 1} : t >= 1 /\ t <= MaxClock}

----------------------------------------------------------------------------
(* video.uploadVideo (routers) *)

\* storage key `videos/${ctx.user.id}/${Date.now()}-${input.fileName}`
VideoKey(user, t) == [ns |-> "videos", user |-> user, ts |-> t]

\* lines 92-108: the size check, then the buffer, the key and the call of storagePut
UploadVideo_Validate(r) ==
    \E user \in Uploaders, fileSize \in FileSizes("uploadVideo"),
       mimeType \in MimeTypes("uploadVideo") :
        /\ Free(r)
        /\ LET in == Arrive(r, "uploadVideo", user, fileSize, mimeType) IN
           IF ~SizeOk("uploadVideo", fileSize)
           THEN /\ req' = [in EXCEPT ![r].pc = "thrown",
                                     ![r].code = Surfaced("uploadVideo", "BAD_REQUEST")]
                /\ UNCHANGED now
           ELSE \E t \in DateNow :
                /\ now' = t
                /\ req' = [in EXCEPT ![r].pc = "u108", ![r].ts = t]
        /\ UNCHANGED <<dbHandle, videos, videoAnalyses, objects, tempFiles, task, poll, call>>

\* line 108: `await storagePut(videoKey, buffer, input.mimeType)`
UploadVideo_StoragePut(r) ==
    /\ req[r].pc = "u108"
    /\ \/ /\ objects' = objects \cup {VideoKey(req[r].user, req[r].ts)}
          /\ req' = [req EXCEPT ![r].pc = "u114"]
       \/ /\ req' = Throw(r, "INTERNAL_SERVER_ERROR")
          /\ UNCHANGED objects
    /\ UNCHANGED <<dbHandle, now, videos, videoAnalyses, tempFiles, task, poll, call>>

\* lines 114-120 with db.createVideo: without a handle createVideo returns null and
\* reading `insertId` of null throws; the insert itself succeeds or throws
UploadVideo_CreateVideo(r) ==
    /\ req[r].pc = "u114"
    /\ \E h \in getDb, o \in DbOutcomes :
        /\ dbHandle' = h
        /\ IF h /\ o = "ok"
           THEN /\ videos' = Append(videos,
                                [userId |-> req[r].user,
                                 videoKey |-> VideoKey(req[r].user, req[r].ts),
                                 status |-> "processing", frameUrl |-> FALSE])
                /\ req' = [req EXCEPT ![r].pc = "u125", ![r].videoId = Len(videos) + 1]
           ELSE /\ req' = Throw(r, "INTERNAL_SERVER_ERROR")
                /\ UNCHANGED videos
    /\ UNCHANGED <<now, videoAnalyses, objects, tempFiles, task, poll, call>>

\* A mutant: the handler awaits the analysis and answers after the run has ended.
UploadVideo_StartAnalysis_Awaited(r) ==
    /\ req[r].pc = "u125"
    /\ task' = [task EXCEPT ![req[r].videoId] =
                        [NoTask EXCEPT !.pc = "rejected", !.fault = "vision", !.run = 1]]
    /\ videos' = updateVideoStatus(req[r].videoId, "failed", FALSE)
    /\ req' = [req EXCEPT ![r].pc = "returned"]
    /\ UNCHANGED <<dbHandle, now, videoAnalyses, objects, tempFiles, poll, call>>

\* A mutant: the insert id is not recognised and the handler throws before it starts
\* the analysis.
UploadVideo_StartAnalysis_IdLost(r) ==
    /\ req[r].pc = "u125"
    /\ req' = Throw(r, "INTERNAL_SERVER_ERROR")
    /\ UNCHANGED <<dbHandle, now, videos, videoAnalyses, objects, tempFiles, task, poll, call>>

\* lines 123-148, run in one turn after the insert has returned: the insert id (an
\* AUTO_INCREMENT id, so > 0) is taken from the result, analyzeRoomVideo is called
\* and not awaited (it runs up to its first await, the status write of line 17),
\* and {videoId, videoUrl} is returned
UploadVideo_StartAnalysis(r) ==
    /\ req[r].pc = "u125"
    /\ task' = [task EXCEPT ![req[r].videoId] = [NoTask EXCEPT !.pc = "t17", !.run = 1]]
    /\ req' = [req EXCEPT ![r].pc = "returned"]
    /\ UNCHANGED <<dbHandle, now, videos, videoAnalyses, objects, tempFiles, poll, call>>

----------------------------------------------------------------------------
(* uploadRouter: uploadProductImage, uploadThumbnail, uploadFrame *)

ImageEntryPoints == {"uploadProductImage", "uploadThumbnail", "uploadFrame"}

Namespace(ep) ==
    CASE ep = "uploadProductImage" -> "products"
      [] ep = "uploadThumbnail"    -> "thumbnails"
      [] ep = "uploadFrame"        -> "frames"

\* storage key `${namespace}/${ctx.user.id}/${Date.now()}-${input.fileName}` of the
\* built-in storage
ImageKey(ep, user, t) == [ns |-> Namespace(ep), user |-> user, ts |-> t]

\* the checks at the head of the try block, then the buffer, the key and the call of
\* the upload; a TRPCError thrown by a check is caught by the handler's own catch
Image_Validate(r) ==
    \E ep \in ImageEntryPoints :
    \E user \in Uploaders, fileSize \in FileSizes(ep), mimeType \in MimeTypes(ep) :
        /\ Free(r)
        /\ LET in == Arrive(r, ep, user, fileSize, mimeType) IN
           IF ~SizeOk(ep, fileSize) \/ ~TypeOk(ep, mimeType)
           THEN /\ req' = [in EXCEPT ![r].pc = "thrown",
                                     ![r].code = Surfaced(ep, "BAD_REQUEST")]
                /\ UNCHANGED now
           ELSE \E t \in DateNow :
                /\ now' = t
                /\ req' = [in EXCEPT ![r].pc = "i_put", ![r].ts = t]
        /\ UNCHANGED <<dbHandle, videos, videoAnalyses, objects, tempFiles, task, poll, call>>

\* `result = await storagePut(key, buffer, mimeType)` and the return, or the catch
Image_Put(r) ==
    /\ req[r].pc = "i_put"
    /\ \/ /\ objects' = objects \cup {ImageKey(req[r].ep, req[r].user, req[r].ts)}
          /\ req' = [req EXCEPT ![r].pc = "returned"]
       \/ /\ req' = Throw(r, "INTERNAL_SERVER_ERROR")
          /\ UNCHANGED objects
    /\ UNCHANGED <<dbHandle, now, videos, videoAnalyses, tempFiles, task, poll, call>>

----------------------------------------------------------------------------
(* uploadRouter.analyzeRoomVideo: the demo endpoint, which runs its whole pipeline *)
(* inside the request and keeps no row in `videos`                                *)

TempFile(dir, name) == [dir |-> dir, name |-> name]

\* lines 299-314: the size check, then the awaited dynamic imports
Demo_Validate(r) ==
    \E fileSize \in FileSizes("analyzeRoomVideo") :
        /\ Free(r)
        /\ LET in == Arrive(r, "analyzeRoomVideo", 0, fileSize, "none") IN
           IF ~SizeOk("analyzeRoomVideo", fileSize)
           THEN req' = [in EXCEPT ![r].pc = "thrown",
                                  ![r].code = Surfaced("analyzeRoomVideo", "BAD_REQUEST")]
           ELSE req' = [in EXCEPT ![r].pc = "a317"]
        /\ UNCHANGED <<dbHandle, now, videos, videoAnalyses, objects, tempFiles, task, poll, call>>

\* lines 317-318: tempDir = <cwd>/temp/<Date.now()>, `mkdir(tempDir, {recursive: true})`
Demo_MakeTempDir(r) ==
    /\ req[r].pc = "a317"
    /\ \E t \in DateNow :
        /\ now' = t
        /\ \/ /\ tempFiles' = tempFiles \cup {TempFile(t, ".")}
              /\ req' = [req EXCEPT ![r].pc = "a323", ![r].ts = t]
           \/ /\ req' = Throw(r, "Error")
              /\ UNCHANGED tempFiles
    /\ UNCHANGED <<dbHandle, videos, videoAnalyses, objects, task, poll, call>>

\* an awaited step of the demo pipeline that writes `name` into the run's directory
\* or throws
DemoWrite(r, at, name, next) ==
    /\ req[r].pc = at
    /\ \/ /\ tempFiles' = tempFiles \cup {TempFile(req[r].ts, name)}
          /\ req' = [req EXCEPT ![r].pc = next]
       \/ /\ req' = Throw(r, "Error")
          /\ UNCHANGED tempFiles
    /\ UNCHANGED <<dbHandle, now, videos, videoAnalyses, objects, task, poll, call>>

\* lines 321-323: `writeFile(videoPath, videoBuffer)`
Demo_WriteVideo(r) == DemoWrite(r, "a323", "video", "a327")

\* lines 326-327: `extractBestFrame(videoPath, framePath)`
Demo_ExtractBestFrame(r) == DemoWrite(r, "a327", "analysis-frame.jpg", "a331")

\* lines 330-331: `createThumbnail(videoPath, thumbnailPath, 400)`
Demo_CreateThumbnail(r) == DemoWrite(r, "a331", "thumbnail.jpg", "a334")

\* what ai-analyzer.analyzeRoom comes to:
\*   "model"     the text of the model holds a {...} that JSON.parse accepts; it is
\*               returned as the analysis, unexamined
\*   "fallback"  no {...} in the text, or JSON.parse throws: parseAnalysisResponse
\*               returns createFallbackAnalysis, five fixed recommendations
\*   "throw"     the frame cannot be read or the API call fails
AnalyzeRoomOutcomes == {"model", "fallback", "throw"}

\* line 334: `analyzeRoom(framePath, preferences)` returns an analysis or throws
Demo_AnalyzeRoom(r) ==
    /\ req[r].pc = "a334"
    /\ \E o \in AnalyzeRoomOutcomes :
        req' = IF o = "throw" THEN Throw(r, "Error")
               ELSE [req EXCEPT ![r].pc = "a339", ![r].analysis = o]
    /\ UNCHANGED <<dbHandle, now, videos, videoAnalyses, objects, tempFiles, task, poll, call>>

\* lines 337-355 with the catch not catching: a throw of the import, of the matching
\* or of compositeProductsOntoRoom leaves the handler
Demo_Composite_Fatal(r) ==
    /\ req[r].pc = "a339"
    /\ \E done \in BOOLEAN :
        req' = IF done THEN [req EXCEPT ![r].pc = "a358", ![r].composite = TRUE]
               ELSE Throw(r, "Error")
    /\ UNCHANGED <<dbHandle, now, videos, videoAnalyses, objects, tempFiles, task, poll, call>>

\* lines 337-355: the compositing attempt inside its own try/catch.  compositeResult
\* is assigned (done) when the import, the matching and compositeProductsOntoRoom
\* all return; when one of them throws the catch logs it and compositeResult stays null
Demo_Composite(r) ==
    /\ req[r].pc = "a339"
    /\ \E done \in BOOLEAN :
        req' = [req EXCEPT ![r].pc = "a358", ![r].composite = done]
    /\ UNCHANGED <<dbHandle, now, videos, videoAnalyses, objects, tempFiles, task, poll, call>>

\* lines 358-375: the frame and the thumbnail are read back and the response, which
\* carries the analysis, is returned with
\*   afterImageUrl:    compositeResult?.afterImageBase64 || frameBase64
\*   productPositions: compositeResult?.productPositions || []
\* A readFile that throws goes to the outer catch of line 376.
Demo_Respond(r) ==
    /\ req[r].pc = "a358"
    /\ \/ req' = [req EXCEPT
                    ![r].pc = "returned",
                    ![r].afterImageUrl =
                        IF req[r].composite THEN "afterImageBase64" ELSE "frameBase64",
                    ![r].productPositions =
                        IF req[r].composite THEN "compositeResult.productPositions"
                        ELSE "[]"]
       \/ req' = Throw(r, "Error")
    /\ UNCHANGED <<dbHandle, now, videos, videoAnalyses, objects, tempFiles, task, poll, call>>

----------------------------------------------------------------------------
(* videoAnalysis.analyzeRoomVideo(videoId, userId, videoUrl, budgetTier), started *)
(* and not awaited by uploadVideo.  pc names the line of the pending await.       *)

Goto(v, pc) == [task EXCEPT ![v].pc = pc]

\* the promise of the run has settled: `return {success: true, ...}` or `throw error`
RunOver(v) == task[v].pc \in {"resolved", "rejected"}

\* the step `step` of the run throws: control passes to the catch of line 153
Fault(v, step) == [task EXCEPT ![v].pc = "t155", ![v].fault = step]

\* what the awaited invokeLLM and the parse of its answer come to:
\*   "ok"             a JSON text that conforms to the schema
\*   "throw"          invokeLLM rejects, or the response has no choices[0]
\*   "unparsable"     the content is a string that JSON.parse rejects
\*   "norecs"         the content is not a string, so "{}" is parsed and the
\*                    analysis has no recommendations
\*   "nonconforming"  a JSON text with `recommendations` and `roomType` in it that
\*                    does not conform to the schema otherwise (a required field
\*                    missing or of another type); nothing in the run examines it
LLMOutcomes == {"ok", "throw", "unparsable", "norecs", "nonconforming"}

\* line 17: `await updateVideoStatus(videoId, "processing")`
Analyze_MarkProcessing(v) ==
    /\ task[v].pc = "t17"
    /\ \E h \in getDb, o \in DbOutcomes :
        /\ dbHandle' = h
        /\ IF ~h THEN /\ task' = Goto(v, "t51")
                      /\ UNCHANGED videos
           ELSE IF o = "ok"
                THEN /\ videos' = updateVideoStatus(v, "processing", FALSE)
                     /\ task' = Goto(v, "t51")
                ELSE /\ task' = Fault(v, "status write")
                     /\ UNCHANGED videos
    /\ UNCHANGED <<now, videoAnalyses, objects, tempFiles, req, poll, call>>

\* lines 51-101: `await invokeLLM(...)`, then JSON.parse of the content
Analyze_InvokeLLM(v) ==
    /\ task[v].pc = "t51"
    /\ \E o \in LLMOutcomes :
        task' = [task EXCEPT
                    ![v].pc = IF o \in {"throw", "unparsable"} THEN "t155" ELSE "t106",
                    ![v].fault = IF o \in {"throw", "unparsable"} THEN "vision" ELSE @,
                    ![v].data = o,
                    ![v].llmCalls = @ + 1]
    /\ UNCHANGED <<dbHandle, now, videos, videoAnalyses, objects, tempFiles, req, poll, call>>

\* lines 104-142: `await getAllProducts({isActive: true})` inside the inner try, whose
\* catch falls back to generateAIProductRecommendations; then the placements and the
\* record.  A catalog read that throws is absorbed by the inner catch.  Iterating the
\* recommendations that the parsed "{}" lacks throws in the inner try and again in the
\* inner catch, so out of it: the fault is the model's output.
Analyze_ResolveProducts(v) ==
    /\ task[v].pc = "t106"
    /\ \E h \in getDb :
        /\ dbHandle' = h
        /\ task' = IF task[v].data = "norecs"
                   THEN Fault(v, "vision")
                   ELSE Goto(v, "t144")
    /\ UNCHANGED <<now, videos, videoAnalyses, objects, tempFiles, req, poll, call>>

\* line 144: `await updateVideoStatus(videoId, "completed", frameUrl)`
Analyze_MarkCompleted(v) ==
    /\ task[v].pc = "t144"
    /\ \E h \in getDb, o \in DbOutcomes :
        /\ dbHandle' = h
        /\ IF ~h THEN /\ task' = Goto(v, "t145")
                      /\ UNCHANGED videos
           ELSE IF o = "ok"
                THEN /\ videos' = updateVideoStatus(v, "completed", TRUE)
                     /\ task' = Goto(v, "t145")
                ELSE /\ task' = Fault(v, "status write")
                     /\ UNCHANGED videos
    /\ UNCHANGED <<now, videoAnalyses, objects, tempFiles, req, poll, call>>

\* line 145: `await createVideoAnalysis(videoAnalysis)`
Analyze_CreateVideoAnalysis(v) ==
    /\ task[v].pc = "t145"
    /\ \E h \in getDb, o \in DbOutcomes :
        /\ dbHandle' = h
        /\ IF ~h THEN /\ task' = Goto(v, "t146")
                      /\ UNCHANGED videoAnalyses
           ELSE IF o = "ok" /\ ~UniqueViolation(v)
                THEN /\ videoAnalyses' =
                            Append(videoAnalyses,
                                   [videoId |-> v, userId |-> videos[v].userId])
                     /\ task' = Goto(v, "t146")
                ELSE /\ task' = Fault(v, "persistence")
                     /\ UNCHANGED videoAnalyses
    /\ UNCHANGED <<now, videos, objects, tempFiles, req, poll, call>>

\* line 146: `await updateVideoStatus(videoId, "completed")`, then `return {success: true}`
Analyze_MarkCompletedAgain(v) ==
    /\ task[v].pc = "t146"
    /\ \E h \in getDb, o \in DbOutcomes :
        /\ dbHandle' = h
        /\ IF ~h THEN /\ task' = Goto(v, "resolved")
                      /\ UNCHANGED videos
           ELSE IF o = "ok"
                THEN /\ videos' = updateVideoStatus(v, "completed", FALSE)
                     /\ task' = Goto(v, "resolved")
                ELSE /\ task' = Fault(v, "status write")
                     /\ UNCHANGED videos
    /\ UNCHANGED <<now, videoAnalyses, objects, tempFiles, req, poll, call>>

\* lines 153-157: the catch of the whole run: `await updateVideoStatus(videoId,
\* "failed")`, then the error is rethrown; a status write that throws rejects the run
\* as well, with the status left as it was
Analyze_CatchMarkFailed(v) ==
    /\ task[v].pc = "t155"
    /\ \E h \in getDb, o \in DbOutcomes :
        /\ dbHandle' = h
        /\ videos' = IF h /\ o = "ok"
                     THEN updateVideoStatus(v, "failed", FALSE)
                     ELSE videos
    /\ task' = Goto(v, "rejected")
    /\ UNCHANGED <<now, videoAnalyses, objects, tempFiles, req, poll, call>>

\* analyzeRoomVideo is exported and takes any videoId: a caller invokes it again for
\* a video whose earlier run has ended.  Lines 9-17 look at nothing but the id, so
\* the new run starts like the first one.
Analyze_Reinvoke(v) ==
    /\ RunOver(v)
    /\ task[v].run < MaxRuns
    /\ task' = [task EXCEPT ![v] = [NoTask EXCEPT !.pc = "t17", !.run = task[v].run + 1]]
    /\ UNCHANGED <<dbHandle, now, videos, videoAnalyses, objects, tempFiles, req, poll, call>>

\* The server process after a restart: `_db` of db.ts is unset again, the rows that
\* earlier uploads stored are in the database, their runs, which lived in the old
\* process, are gone and have left the status at processing.
InitRestarted ==
    /\ dbHandle = FALSE
    /\ now = 0
    /\ videos = [v \in VideoIds |->
                    [userId |-> 1, videoKey |-> VideoKey(1, v),
                     status |-> "processing", frameUrl |-> FALSE]]
    /\ videoAnalyses = <<>>
    /\ objects = {VideoKey(1, v) : v \in VideoIds}
    /\ tempFiles = {}
    /\ req = [r \in Reqs |-> NoReq]
    /\ task = [v \in VideoIds |-> NoTask]
    /\ poll = NoPoll
    /\ call = NoCall

\* analyzeRoomVideo is exported and takes any videoId: a caller invokes it for a
\* stored video that has no run in this process
Analyze_Invoke(v) ==
    /\ v \in DOMAIN videos
    /\ task[v].pc = "none"
    /\ task' = [task EXCEPT ![v] = [NoTask EXCEPT !.pc = "t17", !.run = 1]]
    /\ UNCHANGED <<dbHandle, now, videos, videoAnalyses, objects, tempFiles, req, poll, call>>

----------------------------------------------------------------------------
(* video.getVideoAnalysis (routers), called by the polling client *)

\* lines 162-165: `await db.getVideoById(input.videoId)` and the ownership check
GetVideoAnalysis_ReadVideo ==
    /\ poll.pc \in {"idle", "responded"}
    /\ \E user \in Users, videoId \in VideoIds, h \in getDb, o \in DbOutcomes :
        /\ dbHandle' = h
        /\ poll' =
            LET q == [NoPoll EXCEPT !.user = user, !.videoId = videoId] IN
            IF h /\ o = "throw"
            THEN [q EXCEPT !.pc = "responded", !.code = "INTERNAL_SERVER_ERROR"]
            ELSE IF ~h \/ videoId > Len(videos) \/ videos[videoId].userId # user
            THEN [q EXCEPT !.pc = "responded", !.code = "NOT_FOUND"]
            ELSE [q EXCEPT !.pc = "g167", !.status = videos[videoId].status]
    /\ UNCHANGED <<now, videos, videoAnalyses, objects, tempFiles, req, task, call>>

\* lines 167-168: `await db.getVideoAnalysisByVideoId(input.videoId)`; the response
\* pairs the row read at line 162 with the analysis read now
GetVideoAnalysis_ReadAnalysis ==
    /\ poll.pc = "g167"
    /\ \E h \in getDb, o \in DbOutcomes :
        /\ dbHandle' = h
        /\ poll' =
            IF h /\ o = "throw"
            THEN [poll EXCEPT !.pc = "responded", !.code = "INTERNAL_SERVER_ERROR",
                              !.status = "none"]
            ELSE [poll EXCEPT !.pc = "responded", !.code = "OK",
                              !.analysis = h /\ getVideoAnalysisByVideoId(poll.videoId)]
    /\ UNCHANGED <<now, videos, videoAnalyses, objects, tempFiles, req, task, call>>

----------------------------------------------------------------------------
(* Strings that the code searches are sequences of characters; strings that it *)
(* only compares or copies are TLA+ strings.                                   *)

\* `null`/`undefined`, and a value that is present
Null == <<>>
Some(x) == <<x>>

UpperCase ==
    <<"A", "B", "C", "D", "E", "F", "G", "H", "I", "J", "K", "L", "M",
      "N", "O", "P", "Q", "R", "S", "T", "U", "V", "W", "X", "Y", "Z">>
LowerCase ==
    <<"a", "b", "c", "d", "e", "f", "g", "h", "i", "j", "k", "l", "m",
      "n", "o", "p", "q", "r", "s", "t", "u", "v", "w", "x", "y", "z">>

\* String.prototype.toLowerCase
toLowerCase(s) ==
    [i \in DOMAIN s |->
        IF \E k \in DOMAIN UpperCase : UpperCase[k] = s[i]
        THEN LowerCase[CHOOSE k \in DOMAIN UpperCase : UpperCase[k] = s[i]]
        ELSE s[i]]

\* String.prototype.includes
includes(s, sub) ==
    \E i \in 0..(Len(s) - Len(sub)) : SubSeq(s, i + 1, i + Len(sub)) = sub

\* Math.round of the non-negative quotient num / den: the nearest integer, halves up
MathRound(num, den) == (2 * num + den) \div (2 * den)

----------------------------------------------------------------------------
(* photo.getPhotoAnalysis of server/routers.ts, a publicProcedure: ctx.user is not *)
(* read.  The rows of `photos` are those uploadPhoto stored (lines 119-124), each  *)
(* with the userId of its uploader.                                                *)

\* number of stored photos
MaxPhotos == 2

\* the caller: a signed-in user, or 0 for a caller without a session
Callers == {0} \cup Users

PhotoStatuses == {"processing", "completed"}

\* the table `photos`, photo i at index i
PhotoTables ==
    UNION {[1..n -> [userId : Users, status : PhotoStatuses]] : n \in 0..MaxPhotos}

\* db.getPhotoById(photoId): the row with that id, if there is one
getPhotoById(photos, photoId) ==
    IF photoId \in DOMAIN photos THEN Some(photos[photoId]) ELSE Null

\* db.getPhotoAnalysis(photoId): the analysis of a photo whose run has completed
getPhotoAnalysis(photos, photoId) ==
    photoId \in DOMAIN photos /\ photos[photoId].status = "completed"

PhotoPollCalls ==
    {[fn |-> "getPhotoAnalysis", pc |-> "p148", photos |-> t, caller |-> c,
      photoId |-> id, code |-> "none", photo |-> Null, analysis |-> FALSE] :
        t \in PhotoTables, c \in Callers, id \in 1..MaxPhotos}

InitPhotoPoll == ServerIdle /\ call \in PhotoPollCalls

\* lines 148-151: `await db.getPhotoById(input.photoId)`, NOT_FOUND if there is no
\* such row; the row's userId is not compared with anything
GetPhotoAnalysis_ReadPhoto ==
    /\ call.fn = "getPhotoAnalysis" /\ call.pc = "p148"
    /\ \E o \in DbOutcomes :
        call' = IF o = "throw"
                THEN [call EXCEPT !.pc = "responded", !.code = "INTERNAL_SERVER_ERROR"]
                ELSE IF getPhotoById(call.photos, call.photoId) = Null
                THEN [call EXCEPT !.pc = "responded", !.code = "NOT_FOUND"]
                ELSE [call EXCEPT !.pc = "p152",
                                  !.photo = getPhotoById(call.photos, call.photoId)]
    /\ UNCHANGED <<dbHandle, now, videos, videoAnalyses, objects, tempFiles, req, task, poll>>

\* lines 152-153: `await db.getPhotoAnalysis(input.photoId)`, `return { photo, analysis }`
GetPhotoAnalysis_ReadAnalysis ==
    /\ call.fn = "getPhotoAnalysis" /\ call.pc = "p152"
    /\ \E o \in DbOutcomes :
        call' = IF o = "throw"
                THEN [call EXCEPT !.pc = "responded", !.code = "INTERNAL_SERVER_ERROR",
                                  !.photo = Null]
                ELSE [call EXCEPT !.pc = "responded", !.code = "OK",
                                  !.analysis = getPhotoAnalysis(call.photos, call.photoId)]
    /\ UNCHANGED <<dbHandle, now, videos, videoAnalyses, objects, tempFiles, req, task, poll>>

----------------------------------------------------------------------------
(* videoAnalysis.estimatePriceForItem *)

BudgetTiers == {"economy", "mid-range", "premium", "luxury"}

\* a mutant: the test for "bed" stands before the test for "table"
basePrice_BedBeforeTable(lowerItem) ==
    IF includes(lowerItem, <<"s", "o", "f", "a">>) \/ includes(lowerItem, <<"c", "o", "u", "c", "h">>)
        THEN 35000
    ELSE IF includes(lowerItem, <<"c", "h", "a", "i", "r">>)
        THEN 8000
    ELSE IF includes(lowerItem, <<"b", "e", "d">>)
        THEN 40000
    ELSE IF includes(lowerItem, <<"t", "a", "b", "l", "e">>)
        THEN 15000
    ELSE IF includes(lowerItem, <<"l", "a", "m", "p">>) \/ includes(lowerItem, <<"l", "i", "g", "h", "t">>)
        THEN 3000
    ELSE IF includes(lowerItem, <<"r", "u", "g">>) \/ includes(lowerItem, <<"c", "a", "r", "p", "e", "t">>)
        THEN 12000
    ELSE IF includes(lowerItem, <<"a", "r", "t">>) \/ includes(lowerItem, <<"p", "a", "i", "n", "t", "i", "n", "g">>)
        THEN 5000
    ELSE IF includes(lowerItem, <<"c", "u", "r", "t", "a", "i", "n">>) \/ includes(lowerItem, <<"d", "r", "a", "p", "e">>)
        THEN 6000
    ELSE IF includes(lowerItem, <<"s", "h", "e", "l", "f">>) \/ includes(lowerItem, <<"b", "o", "o", "k", "c", "a", "s", "e">>)
        THEN 10000
    ELSE 10000

\* lines 201-211: the chain of `if ... else if` over the lower-cased name
basePrice(lowerItem) ==
    IF includes(lowerItem, <<"s", "o", "f", "a">>) \/ includes(lowerItem, <<"c", "o", "u", "c", "h">>)
        THEN 35000
    ELSE IF includes(lowerItem, <<"c", "h", "a", "i", "r">>)
        THEN 8000
    ELSE IF includes(lowerItem, <<"t", "a", "b", "l", "e">>)
        THEN 15000
    ELSE IF includes(lowerItem, <<"b", "e", "d">>)
        THEN 40000
    ELSE IF includes(lowerItem, <<"l", "a", "m", "p">>) \/ includes(lowerItem, <<"l", "i", "g", "h", "t">>)
        THEN 3000
    ELSE IF includes(lowerItem, <<"r", "u", "g">>) \/ includes(lowerItem, <<"c", "a", "r", "p", "e", "t">>)
        THEN 12000
    ELSE IF includes(lowerItem, <<"a", "r", "t">>) \/ includes(lowerItem, <<"p", "a", "i", "n", "t", "i", "n", "g">>)
        THEN 5000
    ELSE IF includes(lowerItem, <<"c", "u", "r", "t", "a", "i", "n">>) \/ includes(lowerItem, <<"d", "r", "a", "p", "e">>)
        THEN 6000
    ELSE IF includes(lowerItem, <<"s", "h", "e", "l", "f">>) \/ includes(lowerItem, <<"b", "o", "o", "k", "c", "a", "s", "e">>)
        THEN 10000
    ELSE 10000

\* line 214-219: the multipliers, in tenths
multipliers ==
    [tier \in BudgetTiers |->
        CASE tier = "economy"   -> 6
          [] tier = "mid-range" -> 10
          [] tier = "premium"   -> 18
          [] tier = "luxury"    -> 30]

\* lines 197-224; budgetTier is Null when the optional argument is left out.
\* `multipliers[budgetTier] || 1.0`: a tier that is no key of the table gives 1.0
estimatePriceForItem(itemName, budgetTier) ==
    LET lowerItem == toLowerCase(itemName)
        multiplier == IF budgetTier # Null /\ budgetTier[1] \in BudgetTiers
                      THEN multipliers[budgetTier[1]]
                      ELSE 10
    IN  MathRound(basePrice(lowerItem) * multiplier, 10)

LeatherSofa == <<"L", "e", "a", "t", "h", "e", "r", " ", "S", "o", "f", "a">>
FloorLamp == <<"F", "l", "o", "o", "r", " ", "L", "a", "m", "p">>
Vase == <<"V", "a", "s", "e">>

\* the item names the function is called with
ItemNames ==
    {LeatherSofa, FloorLamp, Vase,
     <<"B", "e", "d", "s", "i", "d", "e", " ", "T", "a", "b", "l", "e">>,
     <<"S", "o", "f", "a", " ", "B", "e", "d">>,
     <<"D", "a", "y", "b", "e", "d">>,
     <<"A", "R", "M", "C", "H", "A", "I", "R">>,
     <<"R", "u", "g", "g", "e", "d", " ", "C", "h", "a", "i", "r">>,
     <<"C", "o", "u", "c", "h">>,
     <<"P", "e", "n", "d", "a", "n", "t", " ", "L", "i", "g", "h", "t">>,
     <<"S", "m", "a", "r", "t", " ", "L", "a", "m", "p">>,
     <<"K", "i", "l", "i", "m", " ", "R", "u", "g">>,
     <<"C", "a", "r", "p", "e", "t">>,
     <<"W", "a", "l", "l", " ", "A", "r", "t">>,
     <<"C", "h", "a", "r", "t">>,
     <<"O", "i", "l", " ", "P", "a", "i", "n", "t", "i", "n", "g">>,
     <<"C", "u", "r", "t", "a", "i", "n", "s">>,
     <<"D", "r", "a", "p", "e", "s">>,
     <<"F", "l", "o", "a", "t", "i", "n", "g", " ", "S", "h", "e", "l", "f">>,
     <<"B", "o", "o", "k", "c", "a", "s", "e">>}

\* the budgetTier arguments: left out, or one of the four tiers
TierArgs == {Null} \cup {Some(t) : t \in BudgetTiers}

\* a call of estimatePriceForItem that has not run yet
PriceCalls ==
    {[fn |-> "estimatePriceForItem", pc |-> "called", itemName |-> n,
      budgetTier |-> t, result |-> Null] : n \in ItemNames, t \in TierArgs}

InitPrice == ServerIdle /\ call \in PriceCalls

\* the call runs and returns
EstimatePrice ==
    /\ call.fn = "estimatePriceForItem" /\ call.pc = "called"
    /\ call' = [call EXCEPT !.pc = "returned",
                            !.result = Some(estimatePriceForItem(call.itemName,
                                                                 call.budgetTier))]
    /\ UNCHANGED <<dbHandle, now, videos, videoAnalyses, objects, tempFiles, req, task, poll>>

----------------------------------------------------------------------------
(* The resolver stage of videoAnalysis.analyzeRoomVideo (lines 104-122):        *)
(* matchProductsToRecommendations, generateAIProductRecommendations and         *)
(* generateProductPlacements.  The fields priceRange and whereToFind, which are *)
(* copied through, are left out.                                                *)

\* a mutant: slice that cuts nothing off
slice_All(s, n) == s

\* Array.prototype.slice(0, n)
slice(s, n) == SubSeq(s, 1, IF Len(s) < n THEN Len(s) ELSE n)

\* a mutant: the virtual products carry the price of the item without a tier
generateAIProductRecommendations_NoTier(recommendations, budgetTier) ==
    [r \in DOMAIN recommendations |->
        LET rec == recommendations[r]
            taken == slice(rec.items, 3)
        IN  [category |-> rec.category, items |-> rec.items,
             reasoning |-> rec.reasoning,
             products |->
                [k \in DOMAIN taken |->
                    [productId |-> Null, name |-> taken[k], category |-> rec.category,
                     priceKES |-> estimatePriceForItem(taken[k], Null),
                     imageUrl |-> Null, reasoning |-> rec.reasoning,
                     isVirtual |-> TRUE]]]]

\* lines 164-192: one group per recommendation, its products made of the first three
\* item names
generateAIProductRecommendations(recommendations, budgetTier) ==
    [r \in DOMAIN recommendations |->
        LET rec == recommendations[r]
            taken == slice(rec.items, 3)
        IN  [category |-> rec.category, items |-> rec.items,
             reasoning |-> rec.reasoning,
             products |->
                [k \in DOMAIN taken |->
                    [productId |-> Null, name |-> taken[k], category |-> rec.category,
                     priceKES |-> estimatePriceForItem(taken[k], budgetTier),
                     imageUrl |-> Null, reasoning |-> rec.reasoning,
                     isVirtual |-> TRUE]]]]

\* a mutant: a catalog product is handed on flagged as virtual
SelectedProduct_Virtual(p, reasoning) ==
    [productId |-> Some(p.id), name |-> p.name, category |-> p.category,
     priceKES |-> p.priceKES, imageUrl |-> Null, reasoning |-> reasoning,
     isVirtual |-> TRUE]

\* lines 250-258 and 274-282: the resolved product made of a catalog row;
\* imageUrls holds the JSON text of a list of URLs, or is null
SelectedProduct(p, reasoning) ==
    [productId |-> Some(p.id), name |-> p.name, category |-> p.category,
     priceKES |-> p.priceKES,
     imageUrl |-> IF p.imageUrls # Null /\ p.imageUrls[1] # <<>>
                  THEN Some(p.imageUrls[1][1])
                  ELSE Null,
     reasoning |-> reasoning,
     isVirtual |-> FALSE]

\* line 272: the category of the last-resort group
Recommended == <<"R", "e", "c", "o", "m", "m", "e", "n", "d", "e", "d">>

\* a mutant: a group that nothing matches gets no products from the head of the
\* catalog
matchProductsToRecommendations_NoFallback(recommendations, products) ==
    LET GroupOf(rec) ==
            LET category == toLowerCase(rec.category)
                Matches(p) ==
                    \/ includes(toLowerCase(p.category), category)
                    \/ includes(toLowerCase(p.name), category)
                    \/ includes(toLowerCase(IF p.description = Null THEN <<>>
                                            ELSE p.description[1]), category)
                matchingProducts == SelectSeq(products, Matches)
                productsToUse == matchingProducts
                taken == slice(productsToUse, 3)
            IN  [category |-> rec.category, items |-> rec.items,
                 reasoning |-> rec.reasoning,
                 products |-> [k \in DOMAIN taken |->
                                  SelectedProduct(taken[k], rec.reasoning)]]
        HasProducts(g) == Len(g.products) > 0
        matched == SelectSeq([r \in DOMAIN recommendations |->
                                 GroupOf(recommendations[r])], HasProducts)
        first4 == slice(products, 4)
    IN  IF Len(matched) = 0 /\ Len(products) > 0
        THEN <<[category |-> Recommended,
                items |-> <<<<"f", "u", "r", "n", "i", "t", "u", "r", "e">>, <<"d", "e", "c", "o", "r">>>>,
                reasoning |-> "Curated selection for your space",
                products |-> [k \in DOMAIN first4 |->
                                 SelectedProduct(first4[k],
                                                 "Curated selection for your space")]]>>
        ELSE matched

\* lines 229-288
matchProductsToRecommendations(recommendations, products) ==
    LET GroupOf(rec) ==
            LET category == toLowerCase(rec.category)
                Matches(p) ==
                    \/ includes(toLowerCase(p.category), category)
                    \/ includes(toLowerCase(p.name), category)
                    \/ includes(toLowerCase(IF p.description = Null THEN <<>>
                                            ELSE p.description[1]), category)
                matchingProducts == SelectSeq(products, Matches)
                productsToUse == IF Len(matchingProducts) = 0
                                 THEN slice(products, 3)
                                 ELSE matchingProducts
                taken == slice(productsToUse, 3)
            IN  [category |-> rec.category, items |-> rec.items,
                 reasoning |-> rec.reasoning,
                 products |-> [k \in DOMAIN taken |->
                                  SelectedProduct(taken[k], rec.reasoning)]]
        HasProducts(g) == Len(g.products) > 0
        matched == SelectSeq([r \in DOMAIN recommendations |->
                                 GroupOf(recommendations[r])], HasProducts)
        first4 == slice(products, 4)
    IN  IF Len(matched) = 0 /\ Len(products) > 0
        THEN <<[category |-> Recommended,
                items |-> <<<<"f", "u", "r", "n", "i", "t", "u", "r", "e">>, <<"d", "e", "c", "o", "r">>>>,
                reasoning |-> "Curated selection for your space",
                products |-> [k \in DOMAIN first4 |->
                                 SelectedProduct(first4[k],
                                                 "Curated selection for your space")]]>>
        ELSE matched

\* what `await getAllProducts({isActive: true})` comes to: the active rows, the
\* empty list that db.getAllProducts returns without a database handle, or a throw
CatalogReads == {"rows", "nohandle", "throw"}

\* a mutant: the catalog goes to the matching as it was read
resolve_Unfiltered(recommendations, catalog, read, budgetTier) ==
    LET allProducts == IF read = "rows" THEN catalog ELSE <<>>
    IN  IF read # "throw" /\ Len(allProducts) > 0
        THEN matchProductsToRecommendations(recommendations, allProducts)
        ELSE generateAIProductRecommendations(recommendations, budgetTier)

\* lines 104-120: the inner try and its catch
resolve(recommendations, catalog, read, budgetTier) ==
    LET allProducts == IF read = "rows" THEN catalog ELSE <<>>
        Carries(p) == p.budgetTier = Null \/ p.budgetTier = budgetTier
        filteredProducts == IF budgetTier # Null
                            THEN SelectSeq(allProducts, Carries)
                            ELSE allProducts
    IN  IF read # "throw" /\ Len(allProducts) > 0
        THEN matchProductsToRecommendations(recommendations, filteredProducts)
        ELSE generateAIProductRecommendations(recommendations, budgetTier)

\* lines 296-318: the zone templates
livingRoom == <<"l", "i", "v", "i", "n", "g", " ", "r", "o", "o", "m">>
bedroom == <<"b", "e", "d", "r", "o", "o", "m">>

\* `zones` is an object literal, so `zones[key]` also finds what every object
\* inherits: under "constructor" the function Object, whose length is 1 and which
\* has nothing at index 0, under "__proto__" Object.prototype, which has no length.
\* Both are truthy, so `|| zones.default` does not replace them.
constructor == <<"c", "o", "n", "s", "t", "r", "u", "c", "t", "o", "r">>
proto == <<"_", "_", "p", "r", "o", "t", "o", "_", "_">>

\* line 320 and line 326: `zoneIndex < roomZones.length` is false for every
\* zoneIndex when roomZones has no length; the zones of Object are never read as
\* anchors (PlacementThrows)
zones(key) ==
    CASE key \in {proto, constructor} -> <<>>
      [] key = livingRoom ->
            <<[x |-> 30, y |-> 60], [x |-> 70, y |-> 55], [x |-> 50, y |-> 40], [x |-> 20, y |-> 30], [x |-> 80, y |-> 30], [x |-> 50, y |-> 20]>>
      [] key = bedroom ->
            <<[x |-> 50, y |-> 60], [x |-> 25, y |-> 50], [x |-> 75, y |-> 50], [x |-> 50, y |-> 30], [x |-> 50, y |-> 20]>>
      [] OTHER ->
            <<[x |-> 30, y |-> 50], [x |-> 70, y |-> 50], [x |-> 50, y |-> 35], [x |-> 50, y |-> 65]>>

\* a mutant: every product of a group is a candidate for a zone
Candidates_All(category) == category.products

\* line 325: `category.products.slice(0, 2)`
Candidates(category) == slice(category.products, 2)

\* lines 325-340: the inner loop over the candidates of one group; `st` holds
\* `placements` and `zoneIndex`
RECURSIVE PlaceProducts(_, _, _, _)
PlaceProducts(category, products, roomZones, st) ==
    IF products = <<>> THEN st
    ELSE LET product == Head(products) IN
         PlaceProducts(category, Tail(products), roomZones,
            IF st.zoneIndex < Len(roomZones)
            THEN [placements |->
                    Append(st.placements,
                        [productId |-> product.productId, name |-> product.name,
                         category |-> product.category, priceKES |-> product.priceKES,
                         imageUrl |-> product.imageUrl,
                         x |-> roomZones[st.zoneIndex + 1].x,
                         y |-> roomZones[st.zoneIndex + 1].y,
                         \* `product.reasoning || category.reasoning` and
                         \* `product.isVirtual || false`: every resolved
                         \* product carries both fields
                         reasoning |-> product.reasoning,
                         isVirtual |-> product.isVirtual]),
                  zoneIndex |-> st.zoneIndex + 1]
            ELSE st)

\* lines 323-342: the outer loop over the groups
RECURSIVE PlaceGroups(_, _, _)
PlaceGroups(suggestedProducts, roomZones, st) ==
    IF suggestedProducts = <<>> THEN st
    ELSE LET category == Head(suggestedProducts) IN
         PlaceGroups(Tail(suggestedProducts), roomZones,
            IF Len(category.products) > 0
            THEN PlaceProducts(category, Candidates(category), roomZones, st)
            ELSE st)

\* lines 323-333 when roomZones is the function Object: for the first product of the
\* first group that has one, `0 < roomZones.length` holds and `roomZones[0].x` reads
\* a property of undefined, a TypeError that leaves the function
PlacementThrows(suggestedProducts, roomType) ==
    /\ toLowerCase(roomType) = constructor
    /\ \E g \in DOMAIN suggestedProducts : Len(suggestedProducts[g].products) > 0

\* lines 293-345, when it returns
generateProductPlacements(suggestedProducts, roomType) ==
    PlaceGroups(suggestedProducts, zones(toLowerCase(roomType)),
                [placements |-> <<>>, zoneIndex |-> 0]).placements

----------------------------------------------------------------------------
(* Inputs of the resolver stage *)

\* number of recommendations in the model's answer
MaxRecs == 4
\* number of active products in the catalog
MaxCatalog == 5

\* the recommendations the model answers with: a category that occurs in the
\* catalog, with more than three items; a category that occurs nowhere in the
\* catalog, with two items, one of which is the name of a catalog product; a
\* category with no item
RecKinds ==
    {[category |-> <<"F", "u", "r", "n", "i", "t", "u", "r", "e">>,
      items |-> <<LeatherSofa, <<"C", "o", "f", "f", "e", "e", " ", "T", "a", "b", "l", "e">>,
                  <<"A", "r", "m", "c", "h", "a", "i", "r">>, <<"B", "o", "o", "k", "c", "a", "s", "e">>>>,
      reasoning |-> "seating"],
     [category |-> <<"T", "e", "x", "t", "i", "l", "e", "s">>,
      items |-> <<<<"K", "i", "l", "i", "m", " ", "R", "u", "g">>, <<"W", "a", "l", "l", " ", "A", "r", "t">>>>,
      reasoning |-> "warmth"],
     [category |-> <<"L", "i", "g", "h", "t", "i", "n", "g">>, items |-> <<>>, reasoning |-> "light"]}

RecLists == UNION {[1..n -> RecKinds] : n \in 0..MaxRecs}

\* the i-th active row of `products`, in the order of the query
Product(i) ==
    LET k == (i - 1) % 3 IN
    [id |-> 10 + i,
     name |-> CASE k = 0 -> <<"L", "a", "m", "u", " ", "S", "o", "f", "a">>
                [] k = 1 -> <<"F", "l", "o", "o", "r", " ", "L", "a", "m", "p">>
                [] k = 2 -> <<"W", "a", "l", "l", " ", "A", "r", "t">>,
     category |-> CASE k = 0 -> <<"f", "u", "r", "n", "i", "t", "u", "r", "e">>
                    [] k = 1 -> <<"l", "i", "g", "h", "t", "i", "n", "g">>
                    [] k = 2 -> <<"d", "e", "c", "o", "r">>,
     description |-> IF k = 2 THEN Some(<<"f", "o", "r", " ", "f", "u", "r", "n", "i", "t", "u", "r", "e", " ", "l", "o", "v", "e", "r", "s">>) ELSE Null,
     priceKES |-> 1000 * i,
     imageUrls |-> CASE k = 0 -> Some(<<"url", "url2">>)
                     [] k = 1 -> Null
                     [] k = 2 -> Some(<<>>),
     budgetTier |-> CASE i = 2 -> Null
                      [] i = 4 -> Some("premium")
                      [] OTHER -> Some("economy")]

Catalogs == {[i \in 1..n |-> Product(i)] : n \in 0..MaxCatalog}

\* the budgetTier of the run: none, a tier some product carries, a tier no product
\* carries
ResolverTiers == {Null, Some("economy"), Some("luxury")}

RoomTypes == {livingRoom, <<"B", "e", "d", "r", "o", "o", "m">>, <<"k", "i", "t", "c", "h", "e", "n">>}

ResolverCalls ==
    {[fn |-> "resolver", pc |-> "called", recommendations |-> recs, catalog |-> cat,
      read |-> rd, budgetTier |-> t, roomType |-> room,
      suggestedProducts |-> <<>>, productPlacements |-> <<>>] :
        recs \in RecLists, cat \in Catalogs, rd \in CatalogReads,
        t \in ResolverTiers, room \in RoomTypes}

InitResolver == ServerIdle /\ call \in ResolverCalls

\* lines 104-120
Resolver_Resolve ==
    /\ call.fn = "resolver" /\ call.pc = "called"
    /\ call' = [call EXCEPT !.pc = "resolved",
                            !.suggestedProducts =
                                resolve(call.recommendations, call.catalog, call.read,
                                        call.budgetTier)]
    /\ UNCHANGED <<dbHandle, now, videos, videoAnalyses, objects, tempFiles, req, task, poll>>

\* line 122
Resolver_Place ==
    /\ call.fn = "resolver" /\ call.pc = "resolved"
    /\ call' = IF PlacementThrows(call.suggestedProducts, call.roomType)
               THEN [call EXCEPT !.pc = "threw"]
               ELSE [call EXCEPT !.pc = "placed",
                                 !.productPlacements =
                                    generateProductPlacements(call.suggestedProducts,
                                                              call.roomType)]
    /\ UNCHANGED <<dbHandle, now, videos, videoAnalyses, objects, tempFiles, req, task, poll>>

\* roomType is a free string of the model's answer: casings of the two template
\* keys, a spelling with a hyphen, a room without a template, the key "default",
\* names that every object inherits
PlacementRoomTypes ==
    {livingRoom,
     <<"L", "i", "v", "i", "n", "g", " ", "R", "o", "o", "m">>,
     <<"L", "I", "V", "I", "N", "G", " ", "R", "O", "O", "M">>,
     <<"l", "i", "v", "i", "n", "g", "-", "r", "o", "o", "m">>,
     bedroom,
     <<"B", "E", "D", "R", "O", "O", "M">>,
     <<"B", "e", "d", "R", "o", "o", "m">>,
     <<"k", "i", "t", "c", "h", "e", "n">>,
     <<"d", "e", "f", "a", "u", "l", "t">>,
     constructor,
     proto}

\* line 122 is reached with the groups the resolver made of the recommendations,
\* from an empty catalog or from one of MaxCatalog rows
PlacementCalls ==
    {[fn |-> "resolver", pc |-> "resolved", recommendations |-> recs, catalog |-> cat,
      read |-> "rows", budgetTier |-> Null, roomType |-> room,
      suggestedProducts |-> resolve(recs, cat, "rows", Null),
      productPlacements |-> <<>>] :
        recs \in RecLists, cat \in {<<>>, [i \in 1..MaxCatalog |-> Product(i)]},
        room \in PlacementRoomTypes}

InitPlacement == ServerIdle /\ call \in PlacementCalls

----------------------------------------------------------------------------
(* video-processor.extractBestFrame(videoPath, outputPath).  Timestamps are counted *)
(* in half seconds, so that duration / 2 of a whole number of seconds is exact.     *)

\* the longest video, in seconds
MaxDuration == 20

\* the duration that ffprobe reports, in whole seconds
Durations == 1..MaxDuration

\* `Math.min(metadata.duration / 2, 5)`, in half seconds
BestTimestamp(duration) == IF duration < 10 THEN duration ELSE 10

\* the `timestamp` of the fallback call `extractFrame(videoPath, outputPath, 3)`
FallbackTimestamp == 6

\* a call: `probed` is the duration getVideoMetadata returned, `attempts` the calls
\* of extractFrame with their timestamp and outcome, `frame` the timestamp of the
\* frame that outputPath holds
FrameCalls ==
    {[fn |-> "extractBestFrame", pc |-> "e109", duration |-> d, probed |-> Null,
      attempts |-> <<>>, frame |-> Null] : d \in Durations}

InitFrame == ServerIdle /\ call \in FrameCalls

\* what an awaited ffprobe or ffmpeg command comes to
ExecOutcomes == {"ok", "throw"}

\* line 109: `await getVideoMetadata(videoPath)` (lines 72-97), which rethrows
\* whatever ffprobe or the parse of its output throws
Frame_Probe ==
    /\ call.fn = "extractBestFrame" /\ call.pc = "e109"
    /\ \E o \in ExecOutcomes :
        call' = IF o = "ok"
                THEN [call EXCEPT !.pc = "e114", !.probed = Some(call.duration)]
                ELSE [call EXCEPT !.pc = "e118"]
    /\ UNCHANGED <<dbHandle, now, videos, videoAnalyses, objects, tempFiles, req, task, poll>>

\* lines 112-114: `return await extractFrame(videoPath, outputPath, timestamp)`
\* inside the try: a throw of extractFrame (lines 21-41) goes to the same catch
Frame_Extract ==
    /\ call.fn = "extractBestFrame" /\ call.pc = "e114"
    /\ LET timestamp == BestTimestamp(call.probed[1]) IN
       \E o \in ExecOutcomes :
        call' = [call EXCEPT
                    !.pc = IF o = "ok" THEN "returned" ELSE "e118",
                    !.attempts = Append(@, [timestamp |-> timestamp, outcome |-> o]),
                    !.frame = IF o = "ok" THEN Some(timestamp) ELSE @]
    /\ UNCHANGED <<dbHandle, now, videos, videoAnalyses, objects, tempFiles, req, task, poll>>

\* lines 115-119: the catch, `return await extractFrame(videoPath, outputPath, 3)`;
\* its throw leaves extractBestFrame
Frame_Fallback ==
    /\ call.fn = "extractBestFrame" /\ call.pc = "e118"
    /\ \E o \in ExecOutcomes :
        call' = [call EXCEPT
                    !.pc = IF o = "ok" THEN "returned" ELSE "thrown",
                    !.attempts = Append(@, [timestamp |-> FallbackTimestamp,
                                            outcome |-> o]),
                    !.frame = IF o = "ok" THEN Some(FallbackTimestamp) ELSE @]
    /\ UNCHANGED <<dbHandle, now, videos, videoAnalyses, objects, tempFiles, req, task, poll>>

----------------------------------------------------------------------------
(* room-compositor.compositeProductsOntoRoom *)

\* number of recommendations handed to the compositor
MaxItems == 5

\* what a recommendation of the list is like:
\*   "complete url"   position, size, an image URL in the lookup, the image loads
\*   "complete file"  the same with a file path in the lookup
\*   "no position"    `position` is missing
\*   "no size"        `size` is missing
\*   "no image"       the lookup has no entry for the product name
\*   "load fails"     fetch, readFile or the decoding by sharp throws
ItemKinds ==
    {"complete url", "complete file", "no position", "no size", "no image",
     "load fails"}

KindLists == UNION {[1..n -> ItemKinds] : n \in 0..MaxItems}

\* the k-th recommendation, of kind `kind`; the product names are distinct
Recommendation(k, kind) ==
    [productName |-> k,
     position |-> IF kind = "no position" THEN Null
                  ELSE Some([x |-> 10 * k, y |-> 55]),
     size |-> IF kind = "no size" THEN Null
              ELSE Some([width |-> 45, height |-> 25])]

\* the entry of productImages for the k-th product name
ImageEntry(kind) ==
    CASE kind = "no image"      -> Null
      [] kind = "complete file" -> Some([http |-> FALSE])
      [] OTHER                  -> Some([http |-> TRUE])

CompositorCalls ==
    {[fn |-> "compositor", pc |-> "c33",
      recommendations |-> [k \in DOMAIN kinds |-> Recommendation(k, kinds[k])],
      productImages |-> [k \in DOMAIN kinds |-> ImageEntry(kinds[k])],
      loads |-> [k \in DOMAIN kinds |->
                    IF kinds[k] = "load fails" THEN "throw" ELSE "ok"],
      roomWidth |-> 0, roomHeight |-> 0, i |-> 1,
      composites |-> <<>>, productPositions |-> <<>>, at |-> "none"] :
        kinds \in KindLists}

InitCompositor == ServerIdle /\ call \in CompositorCalls

\* what `await roomImage.metadata()` comes to: metadata with the decoded
\* dimensions, metadata without dimensions, or a throw
RoomMetadata == {"dimensions", "no dimensions", "throw"}

\* lines 30-52: the room image is opened and its metadata awaited; a throw goes to
\* the catch of line 133, which throws "Failed to composite products"
Composite_Metadata ==
    /\ call.fn = "compositor" /\ call.pc = "c33"
    /\ \E roomMetadata \in RoomMetadata :
        call' = IF roomMetadata = "throw"
                THEN [call EXCEPT !.pc = "thrown", !.at = "metadata"]
                ELSE [call EXCEPT
                        !.pc = "c55",
                        !.roomWidth = IF roomMetadata = "dimensions" THEN 640
                                      ELSE 1280,
                        !.roomHeight = IF roomMetadata = "dimensions" THEN 480
                                       ELSE 720]
    /\ UNCHANGED <<dbHandle, now, videos, videoAnalyses, objects, tempFiles, req, task, poll>>

\* lines 56-66: the recommendation is passed over without a look at its image
Skipped(rec, productImagePath) ==
    rec.position = Null \/ rec.size = Null \/ productImagePath = Null

\* lines 69-72 and 106-112: the entry of productPositions, in pixels
Position(rec, roomWidth, roomHeight) ==
    [productName |-> rec.productName,
     x |-> MathRound(rec.position[1].x * roomWidth, 100),
     y |-> MathRound(rec.position[1].y * roomHeight, 100),
     width |-> MathRound(rec.size[1].width * roomWidth, 100),
     height |-> MathRound(rec.size[1].height * roomHeight, 100)]

\* a mutant: a product image that fails to load aborts the composite
Composite_Item_Abort ==
    /\ call.fn = "compositor" /\ call.pc = "c55"
    /\ call.i <= Len(call.recommendations)
    /\ LET rec == call.recommendations[call.i] IN
       call' = IF Skipped(rec, call.productImages[call.i])
               THEN [call EXCEPT !.i = @ + 1]
               ELSE IF call.loads[call.i] = "throw"
               THEN [call EXCEPT !.pc = "thrown", !.at = "item"]
               ELSE [call EXCEPT
                        !.i = @ + 1,
                        !.composites = Append(@, rec.productName),
                        !.productPositions =
                            Append(@, Position(rec, call.roomWidth, call.roomHeight))]
    /\ UNCHANGED <<dbHandle, now, videos, videoAnalyses, objects, tempFiles, req, task, poll>>

\* lines 55-117: one pass of the loop.  The image is fetched or read, resized and
\* staged inside the try of line 76, whose catch logs and goes on
Composite_Item ==
    /\ call.fn = "compositor" /\ call.pc = "c55"
    /\ call.i <= Len(call.recommendations)
    /\ LET rec == call.recommendations[call.i] IN
       call' = IF Skipped(rec, call.productImages[call.i])
                  \/ call.loads[call.i] = "throw"
               THEN [call EXCEPT !.i = @ + 1]
               ELSE [call EXCEPT
                        !.i = @ + 1,
                        !.composites = Append(@, rec.productName),
                        !.productPositions =
                            Append(@, Position(rec, call.roomWidth, call.roomHeight))]
    /\ UNCHANGED <<dbHandle, now, videos, videoAnalyses, objects, tempFiles, req, task, poll>>

\* lines 120-131: the layers are flattened onto the room image and the result is
\* returned, or the encoding throws into the catch of line 133
Composite_Flatten ==
    /\ call.fn = "compositor" /\ call.pc = "c55"
    /\ call.i > Len(call.recommendations)
    /\ \/ call' = [call EXCEPT !.pc = "returned"]
       \/ call' = [call EXCEPT !.pc = "thrown", !.at = "flatten"]
    /\ UNCHANGED <<dbHandle, now, videos, videoAnalyses, objects, tempFiles, req, task, poll>>

----------------------------------------------------------------------------
(* Specification *)

\* a step of an upload request
UploadNext(r) ==
    \/ UploadVideo_Validate(r)
    \/ UploadVideo_StoragePut(r)
    \/ UploadVideo_CreateVideo(r)
    \/ UploadVideo_StartAnalysis(r)

\* a step of an uploadRouter request
RouterNext(r) ==
    \/ Image_Validate(r)
    \/ Image_Put(r)
    \/ Demo_Validate(r)
    \/ Demo_MakeTempDir(r)
    \/ Demo_WriteVideo(r)
    \/ Demo_ExtractBestFrame(r)
    \/ Demo_CreateThumbnail(r)
    \/ Demo_AnalyzeRoom(r)
    \/ Demo_Composite(r)
    \/ Demo_Respond(r)

\* a step of the analysis run of video v
AnalyzeNext(v) ==
    \/ Analyze_MarkProcessing(v)
    \/ Analyze_InvokeLLM(v)
    \/ Analyze_ResolveProducts(v)
    \/ Analyze_MarkCompleted(v)
    \/ Analyze_CreateVideoAnalysis(v)
    \/ Analyze_MarkCompletedAgain(v)
    \/ Analyze_CatchMarkFailed(v)

\* a step of the polling client's query
PollNext ==
    \/ GetVideoAnalysis_ReadVideo
    \/ GetVideoAnalysis_ReadAnalysis

\* The server under upload traffic at every entry point, with the analysis runs the
\* uploads start.
Next ==
    \/ \E r \in Reqs : UploadNext(r) \/ RouterNext(r)
    \/ \E v \in VideoIds : AnalyzeNext(v)

Spec == Init /\ [][Next]_vars

\* The server under video uploads with a client polling getVideoAnalysis.
NextPoll ==
    \/ \E r \in Reqs : UploadNext(r)
    \/ \E v \in VideoIds : AnalyzeNext(v)
    \/ PollNext

SpecPoll == Init /\ [][NextPoll]_vars

\* The server under video uploads, with a caller that invokes analyzeRoomVideo again
\* for videos whose run has ended.
NextReinvoke ==
    \/ \E r \in Reqs : UploadNext(r)
    \/ \E v \in VideoIds : AnalyzeNext(v)
    \/ \E v \in VideoIds : Analyze_Reinvoke(v)

SpecReinvoke == Init /\ [][NextReinvoke]_vars

\* The restarted server, in which getDb() may find no database, with a caller that
\* invokes analyzeRoomVideo for the stored videos.
NextRestarted ==
    \/ \E v \in VideoIds : Analyze_Invoke(v)
    \/ \E v \in VideoIds : AnalyzeNext(v)

SpecRestarted == InitRestarted /\ [][NextRestarted]_vars

\* photo.getPhotoAnalysis of server/routers.ts called by every caller for every photo
\* id over every table of the input sets.
NextPhotoPoll ==
    \/ GetPhotoAnalysis_ReadPhoto
    \/ GetPhotoAnalysis_ReadAnalysis

SpecPhotoPoll == InitPhotoPoll /\ [][NextPhotoPoll]_vars

\* estimatePriceForItem called with every item name and tier of the input sets.
NextPrice == EstimatePrice

SpecPrice == InitPrice /\ [][NextPrice]_vars

\* The resolver stage and the placement that follows it, for every input of the
\* input sets.
NextResolver ==
    \/ Resolver_Resolve
    \/ Resolver_Place

SpecResolver == InitResolver /\ [][NextResolver]_vars

\* extractBestFrame called on a video of every duration of the input set.
NextFrame ==
    \/ Frame_Probe
    \/ Frame_Extract
    \/ Frame_Fallback

SpecFrame == InitFrame /\ [][NextFrame]_vars

\* generateProductPlacements called with the groups of every list of recommendations
\* and every roomType of the input sets.
NextPlacement == Resolver_Place

SpecPlacement == InitPlacement /\ [][NextPlacement]_vars

\* compositeProductsOntoRoom called with every list of recommendations of the input
\* sets.
NextCompositor ==
    \/ Composite_Metadata
    \/ Composite_Item
    \/ Composite_Flatten

SpecCompositor == InitCompositor /\ [][NextCompositor]_vars

----------------------------------------------------------------------------
(* Properties *)

Terminal == {"completed", "failed"}

\* the analysis run of video v has resolved or rejected
RunEnded(v) == task[v].pc \in {"resolved", "rejected"}

\* C1: once the stored status of a video is completed or failed, no later write
\* gives it a different value (the status leaves processing once and for all).
C1_TerminalStatusIsFinal ==
    [][\A v \in DOMAIN videos :
          videos[v].status \in Terminal => videos'[v].status = videos[v].status]_vars

\* C2: in every reachable state a video whose status is completed already has its
\* analysis record.
C2_CompletedHasAnalysis ==
    \A v \in DOMAIN videos :
        videos[v].status = "completed" => getVideoAnalysisByVideoId(v)

\* C3: a video has at most one analysis record, and a video whose status is failed
\* has none.
C3_FailedHasNoAnalysis ==
    \A v \in DOMAIN videos :
        /\ Cardinality({i \in DOMAIN videoAnalyses : videoAnalyses[i].videoId = v}) <= 1
        /\ videos[v].status = "failed" => ~getVideoAnalysisByVideoId(v)

\* C4: no video has an analysis record while its status is processing, and no
\* response of getVideoAnalysis pairs the status processing with an analysis.
C4_NoAnalysisWhileProcessing ==
    /\ \A v \in DOMAIN videos :
          videos[v].status = "processing" => ~getVideoAnalysisByVideoId(v)
    /\ (poll.pc = "responded" /\ poll.code = "OK" /\ poll.status = "processing")
          => ~poll.analysis

\* C5: every video created with status processing reaches completed or failed:
\* when its analysis run has ended, and so writes no more, the status is terminal.
C5_EndedRunLeftTerminalStatus ==
    \A v \in DOMAIN videos : RunEnded(v) => videos[v].status \in Terminal

\* the pipeline that serves request r has run to its end
PipelineEnded(r) ==
    IF req[r].ep = "uploadVideo"
    THEN req[r].videoId # 0 /\ RunEnded(req[r].videoId)
    ELSE req[r].pc \in {"a339", "a358", "returned"}

Responds(r) == req[r].pc # "returned" /\ req'[r].pc = "returned"

Oversize(q) == q.fileSize > Ceiling(q.ep)

\* C8: a request whose declared fileSize exceeds the ceiling of uploadVideo (16MB)
\* or of uploadRouter.analyzeRoomVideo (50MB) is thrown out in the step that takes
\* it up, a step that writes no object, no temp file, no video row and starts no
\* run; and a thrown request takes no further step.
C8_OversizeFailsBeforeSideEffects ==
    [][\A r \in Reqs :
          /\ (/\ req[r].pc = "idle" /\ req'[r].pc # "idle"
              /\ req'[r].ep \in {"uploadVideo", "analyzeRoomVideo"}
              /\ Oversize(req'[r]))
                => /\ req'[r].pc = "thrown"
                   /\ UNCHANGED <<objects, tempFiles, videos, videoAnalyses, task>>
          /\ req[r].pc = "thrown" => req'[r] = req[r]]_vars

\* C8 witness: an oversize video upload and an oversize demo request have both been
\* thrown out, and nothing is stored anywhere.
C8_Witness ==
    /\ \E r \in Reqs : req[r].ep = "uploadVideo" /\ Oversize(req[r]) /\ req[r].pc = "thrown"
    /\ \E r \in Reqs : req[r].ep = "analyzeRoomVideo" /\ Oversize(req[r])
                         /\ req[r].pc = "thrown"
    /\ objects = {} /\ tempFiles = {} /\ videos = <<>>
    /\ \A v \in VideoIds : task[v].pc = "none"

\* the MIME family an entry point expects, where its input declares a type
ExpectedFamily(ep) ==
    CASE ep = "uploadVideo"        -> {"video/mp4"}
      [] ep = "uploadProductImage" -> {"none", "image/png"}
      [] OTHER                     -> {"none"}

\* C9: an upload whose declared mimeType is outside the expected family is rejected
\* and creates no video row.
C9_WrongFamilyRejected ==
    \A r \in Reqs :
        (req[r].pc # "idle" /\ req[r].mimeType \notin ExpectedFamily(req[r].ep))
            => /\ req[r].pc # "returned"
               /\ req[r].videoId = 0

\* C10: a request thrown out by a size or type check is answered BAD_REQUEST.
C10_ValidationFailureIsBadRequest ==
    \A r \in Reqs :
        (/\ req[r].pc = "thrown"
         /\ ~SizeOk(req[r].ep, req[r].fileSize) \/ ~TypeOk(req[r].ep, req[r].mimeType))
            => req[r].code = "BAD_REQUEST"

\* the faults the error taxonomy lets end in status failed: the vision model's call
\* or the parse of its output (validation and frame extraction are no step of the run
\* of a video: the id check of line 12 passes for every AUTO_INCREMENT id)
FailingFaults == {"vision"}

\* C11: a video whose run set the status failed came into the catch by a fault of the
\* vision-model call or parse; a fault of persistence or of any other step never
\* leaves the status failed.
C11_FailedOnlyByVisionFault ==
    \A v \in DOMAIN videos :
        (videos[v].status = "failed" /\ RunEnded(v)) => task[v].fault \in FailingFaults

\* outcomes of invokeLLM and the parse that are no JSON conforming to the schema
NotConforming == {"throw", "unparsable", "norecs", "nonconforming"}

\* C12: a run invokes the vision model at most once; when the invocation fails or the
\* output is not JSON conforming to the schema, no analysis is stored for the video,
\* the run ends rejected with the status failed, and no response carries an analysis
\* made of substitute data.
C12_SingleAttemptFailureIsTerminal ==
    /\ \A v \in VideoIds :
          /\ task[v].llmCalls <= 1
          /\ task[v].data \in NotConforming
                => /\ ~getVideoAnalysisByVideoId(v)
                   /\ task[v].pc # "resolved"
                   /\ task[v].pc = "rejected" => videos[v].status = "failed"
    /\ \A r \in Reqs : req[r].pc = "returned" => req[r].analysis # "fallback"

\* C13: a run of analyzeRoomVideo invoked again for a video that has an analysis
\* record and a terminal status leaves the status as it is, and the video keeps
\* exactly one analysis record.
C13_ReinvocationKeepsStatusAndRecord ==
    [][\A v \in DOMAIN videos :
          (/\ task[v].run >= 2
           /\ getVideoAnalysisByVideoId(v)
           /\ videos[v].status \in Terminal)
              => /\ videos'[v].status = videos[v].status
                 /\ Cardinality({i \in DOMAIN videoAnalyses' :
                                   videoAnalyses'[i].videoId = v}) = 1]_vars

\* the keyword groups of the price heuristic in their fixed order
C18_KeywordGroups ==
    <<[words |-> {<<"s", "o", "f", "a">>, <<"c", "o", "u", "c", "h">>}, base |-> 35000],
      [words |-> {<<"c", "h", "a", "i", "r">>}, base |-> 8000],
      [words |-> {<<"t", "a", "b", "l", "e">>}, base |-> 15000],
      [words |-> {<<"b", "e", "d">>}, base |-> 40000],
      [words |-> {<<"l", "a", "m", "p">>, <<"l", "i", "g", "h", "t">>}, base |-> 3000],
      [words |-> {<<"r", "u", "g">>, <<"c", "a", "r", "p", "e", "t">>}, base |-> 12000],
      [words |-> {<<"a", "r", "t">>, <<"p", "a", "i", "n", "t", "i", "n", "g">>}, base |-> 5000],
      [words |-> {<<"c", "u", "r", "t", "a", "i", "n">>, <<"d", "r", "a", "p", "e">>}, base |-> 6000],
      [words |-> {<<"s", "h", "e", "l", "f">>, <<"b", "o", "o", "k", "c", "a", "s", "e">>}, base |-> 10000]>>

\* the base price: that of the first keyword group one of whose words occurs in the
\* name, case-insensitively, and 10000 if there is none
C18_Base(name) ==
    LET hits == {g \in DOMAIN C18_KeywordGroups :
                    \E w \in C18_KeywordGroups[g].words : includes(toLowerCase(name), w)}
    IN  IF hits = {} THEN 10000
        ELSE C18_KeywordGroups[CHOOSE g \in hits : \A h \in hits : g <= h].base

\* twice the multiplier of a tier, 1.0 for an absent tier: 0.6, 1.0, 1.8, 3.0
C18_Multiplier5(tier) ==
    CASE tier = Null              -> 5
      [] tier = Some("economy")   -> 3
      [] tier = Some("mid-range") -> 5
      [] tier = Some("premium")   -> 9
      [] tier = Some("luxury")    -> 15

\* C18: for every item name and tier, estimatePriceForItem returns
\* round(base * multiplier), base being that of the first keyword group found in the
\* name and multiplier 0.6, 1.0, 1.8, 3.0 (1.0 without a tier); ("Leather Sofa",
\* luxury) gives 105000, ("Floor Lamp", economy) 1800, an unknown item without a
\* tier 10000.
C18_PriceIsRoundedBaseTimesMultiplier ==
    (call.fn = "estimatePriceForItem" /\ call.pc = "returned") =>
        LET base == C18_Base(call.itemName)
            m5 == C18_Multiplier5(call.budgetTier)
            price == call.result[1]
        IN  /\ 10 * price - 5 <= 2 * base * m5 /\ 2 * base * m5 < 10 * price + 5
            /\ (call.itemName = LeatherSofa /\ call.budgetTier = Some("luxury"))
                  => price = 105000
            /\ (call.itemName = FloorLamp /\ call.budgetTier = Some("economy"))
                  => price = 1800
            /\ (call.itemName = Vase /\ call.budgetTier = Null) => price = 10000

\* C18 witness: the call for "Bedside Table", a name with the words of two keyword
\* groups in it, has returned the price of the earlier group at the premium tier.
C18_Witness ==
    /\ call.fn = "estimatePriceForItem" /\ call.pc = "returned"
    /\ call.itemName = <<"B", "e", "d", "s", "i", "d", "e", " ", "T", "a", "b", "l", "e">>
    /\ call.budgetTier = Some("premium")
    /\ call.result = Some(27000)

\* the resolver and, where it is named, the placement have run
Resolved == call.fn = "resolver" /\ call.pc \in {"resolved", "placed"}
Placed == call.fn = "resolver" /\ call.pc = "placed"

\* the catalog rows that the run's tier lets through
C14_Filtered ==
    LET Carries(p) == p.budgetTier = Null \/ p.budgetTier = call.budgetTier
    IN  IF call.budgetTier = Null THEN call.catalog ELSE SelectSeq(call.catalog, Carries)

\* C14 as stated: every group the resolver returns holds at most 3 products, the
\* last-resort "Recommended" group included.
C14_EveryGroupAtMostThree ==
    Resolved =>
        \A g \in DOMAIN call.suggestedProducts :
            Len(call.suggestedProducts[g].products) <= 3

\* C14 as amended: a group built for a recommendation (catalog match, zero-match
\* fallback, virtual synthesis) holds at most 3 products; the last-resort
\* "Recommended" group stands alone and holds the first min(4, n) of the n catalog
\* products the tier lets through.
C14_AtMostThreeButRecommendedUpToFour ==
    Resolved =>
        \A g \in DOMAIN call.suggestedProducts :
            LET group == call.suggestedProducts[g] IN
            IF group.category = Recommended
            THEN /\ Len(call.suggestedProducts) = 1
                 /\ Len(group.products) =
                        (IF Len(C14_Filtered) < 4 THEN Len(C14_Filtered) ELSE 4)
                 /\ \A k \in DOMAIN group.products :
                        group.products[k].productId = Some(C14_Filtered[k].id)
            ELSE Len(group.products) <= 3

\* C14 witness: from a catalog of five products and no recommendation the resolver
\* has returned the "Recommended" group with four products.
C14_Witness ==
    /\ Resolved
    /\ Len(call.catalog) = 5
    /\ call.recommendations = <<>>
    /\ Len(call.suggestedProducts) = 1
    /\ call.suggestedProducts[1].category = Recommended
    /\ Len(call.suggestedProducts[1].products) = 4

\* C15: in every resolved product of every group, and in every placement made of
\* one, isVirtual is true exactly when productId is null.
C15_VirtualIffNoProductId ==
    /\ Resolved =>
          \A g \in DOMAIN call.suggestedProducts :
              \A k \in DOMAIN call.suggestedProducts[g].products :
                  LET product == call.suggestedProducts[g].products[k] IN
                  product.isVirtual <=> (product.productId = Null)
    /\ Placed =>
          \A k \in DOMAIN call.productPlacements :
              call.productPlacements[k].isVirtual
                  <=> (call.productPlacements[k].productId = Null)

\* C15 witness: placements of catalog products stand next to none that is virtual,
\* two groups having been matched from a catalog of three.
C15_Witness ==
    /\ Placed
    /\ Len(call.catalog) = 3
    /\ Len(call.suggestedProducts) = 2
    /\ Len(call.productPlacements) = 4
    /\ \A k \in DOMAIN call.productPlacements :
          /\ ~call.productPlacements[k].isVirtual
          /\ call.productPlacements[k].productId # Null

\* C16: whenever the catalog that was read is non-empty, the resolver stage returns
\* at least one group with at least one product, whatever the recommendations and
\* the budgetTier.
C16_NonEmptyCatalogGivesProducts ==
    (Resolved /\ call.read = "rows" /\ call.catalog # <<>>) =>
        \E g \in DOMAIN call.suggestedProducts :
            Len(call.suggestedProducts[g].products) >= 1

\* C17: with an empty catalog the resolver returns one group per recommendation, in
\* order, each with the first min(3, n) of its n items as products: virtual, without
\* productId and imageUrl, named as the item and priced by estimatePriceForItem for
\* the run's tier.
C17_EmptyCatalogGivesVirtualGroups ==
    (Resolved /\ call.catalog = <<>>) =>
        /\ Len(call.suggestedProducts) = Len(call.recommendations)
        /\ \A r \in DOMAIN call.recommendations :
              LET rec == call.recommendations[r]
                  group == call.suggestedProducts[r]
                  n == IF Len(rec.items) < 3 THEN Len(rec.items) ELSE 3
              IN  /\ group.category = rec.category
                  /\ Len(group.products) = n
                  /\ \A k \in 1..n :
                        /\ group.products[k].isVirtual = TRUE
                        /\ group.products[k].productId = Null
                        /\ group.products[k].imageUrl = Null
                        /\ group.products[k].name = rec.items[k]
                        /\ group.products[k].priceKES =
                              estimatePriceForItem(rec.items[k], call.budgetTier)

\* C17 witness: the catalog is empty, the tier is economy, and two recommendations
\* of four items each have given two groups of three virtual products, the first
\* one "Leather Sofa" at 21000.
C17_Witness ==
    /\ Resolved
    /\ call.catalog = <<>> /\ call.read = "rows"
    /\ call.budgetTier = Some("economy")
    /\ Len(call.recommendations) = 2
    /\ \A r \in 1..2 : Len(call.recommendations[r].items) = 4
    /\ Len(call.suggestedProducts) = 2
    /\ \A g \in 1..2 : Len(call.suggestedProducts[g].products) = 3
    /\ call.suggestedProducts[1].products[1].name = LeatherSofa
    /\ call.suggestedProducts[1].products[1].priceKES = 21000

\* the products the placement takes: the first two of each group, group after group
RECURSIVE C19_Taken(_)
C19_Taken(groups) ==
    IF groups = <<>> THEN <<>>
    ELSE SubSeq(Head(groups).products, 1,
                IF Len(Head(groups).products) < 2 THEN Len(Head(groups).products) ELSE 2)
         \o C19_Taken(Tail(groups))

\* C19: the k-th of the products taken (at most the first 2 of each group, in order)
\* gets the k-th anchor of the room's template; no anchor serves twice and none is
\* reused, so there are min(zones, products taken) placements: "living room" with 4
\* groups of 2 products gives 6.
C19_SequentialPlacement ==
    Placed =>
        LET taken == C19_Taken(call.suggestedProducts)
            anchors == zones(toLowerCase(call.roomType))
            placements == call.productPlacements
        IN  /\ Len(placements) = (IF Len(anchors) < Len(taken) THEN Len(anchors)
                                                                ELSE Len(taken))
            /\ \A k \in DOMAIN placements :
                  /\ placements[k].name = taken[k].name
                  /\ placements[k].productId = taken[k].productId
                  /\ placements[k].x = anchors[k].x
                  /\ placements[k].y = anchors[k].y
            /\ \A j, k \in DOMAIN placements :
                  j # k => <<placements[j].x, placements[j].y>>
                              # <<placements[k].x, placements[k].y>>
            /\ (/\ call.roomType = livingRoom
                 /\ Len(call.suggestedProducts) = 4
                 /\ \A g \in 1..4 : Len(call.suggestedProducts[g].products) = 2)
                  => Len(placements) = 6

\* C19 witness: a living room, four groups of two products, six placements, the
\* last of them the second product of the third group.
C19_Witness ==
    /\ Placed
    /\ call.roomType = livingRoom
    /\ Len(call.suggestedProducts) = 4
    /\ \A g \in 1..4 : Len(call.suggestedProducts[g].products) = 2
    /\ Len(call.productPlacements) = 6
    /\ call.productPlacements[6].name = call.suggestedProducts[3].products[2].name
    /\ call.productPlacements[6].x = 50 /\ call.productPlacements[6].y = 20

\* the recommendation at index k has position and size, an image in the lookup, and
\* its image loads
C20_Remains(k) ==
    /\ call.recommendations[k].position # Null
    /\ call.recommendations[k].size # Null
    /\ call.productImages[k] # Null
    /\ call.loads[k] = "ok"

\* the indices in S in increasing order
RECURSIVE C20_InOrder(_)
C20_InOrder(S) ==
    IF S = {} THEN <<>>
    ELSE LET least == CHOOSE k \in S : \A j \in S : k <= j
         IN  <<least>> \o C20_InOrder(S \ {least})

----------------------------------------------------------------------------
(* The demo endpoint's compositing stage *)

\* C21: a compositing stage that throws does not fail the demo request: the step
\* after the analysis never ends the request, and a request that returns with
\* compositeResult unset carries its analysis, the unmodified frame as the "after"
\* image and the empty list of product positions
C21_CompositingFailureIsNotFatal ==
    [][\A r \in Reqs :
          /\ req[r].pc = "a339" => req'[r].pc # "thrown"
          /\ (req'[r].pc = "returned" /\ req'[r].ep = "analyzeRoomVideo"
                  /\ ~req'[r].composite)
              => /\ req'[r].analysis \in {"model", "fallback"}
                 /\ req'[r].afterImageUrl = "frameBase64"
                 /\ req'[r].productPositions = "[]"]_vars

\* a demo request whose compositing threw has returned
C21_Witness ==
    \E r \in Reqs :
        /\ req[r].ep = "analyzeRoomVideo"
        /\ req[r].pc = "returned"
        /\ ~req[r].composite
        /\ req[r].afterImageUrl = "frameBase64"

----------------------------------------------------------------------------
(* The catalog-matching path of the resolver *)

\* the rows of the catalog whose budgetTier is unset or the one asked for
C22_Restricted ==
    LET Carries(p) == p.budgetTier = Null \/ p.budgetTier = call.budgetTier
    IN  SelectSeq(call.catalog, Carries)

\* the catalog row a resolved product was made of
C22_Row(product) ==
    CHOOSE p \in {call.catalog[i] : i \in DOMAIN call.catalog} :
        Some(p.id) = product.productId

\* C22: with a budgetTier the groups are those the matching makes of the catalog
\* rows whose budgetTier is unset or equal to it, so the catalog row of every
\* product of every returned group has no budgetTier or the requested one; without
\* a budgetTier the groups are those the matching makes of the whole catalog
C22_TierRestrictsCatalogBeforeMatching ==
    (Resolved /\ call.read = "rows" /\ call.catalog # <<>>) =>
        IF call.budgetTier # Null
        THEN /\ call.suggestedProducts =
                    matchProductsToRecommendations(call.recommendations, C22_Restricted)
             /\ \A g \in DOMAIN call.suggestedProducts :
                    \A k \in DOMAIN call.suggestedProducts[g].products :
                        LET product == call.suggestedProducts[g].products[k] IN
                        /\ product.productId # Null
                        /\ C22_Row(product).budgetTier \in {Null, call.budgetTier}
        ELSE call.suggestedProducts =
                    matchProductsToRecommendations(call.recommendations, call.catalog)

\* C22 witness: the tier is economy and the catalog holds a premium sofa, which the
\* furniture group would have taken as its third product; the group has the two
\* rows the tier lets through
C22_Witness ==
    /\ Resolved
    /\ call.read = "rows" /\ Len(call.catalog) = 5
    /\ call.budgetTier = Some("economy")
    /\ Len(call.recommendations) = 1
    /\ Len(call.suggestedProducts) = 1
    /\ Len(call.suggestedProducts[1].products) = 2
    /\ Len(matchProductsToRecommendations(call.recommendations,
                                           call.catalog)[1].products) = 3

\* the text of a nullable column, as `p.description?.toLowerCase().includes(...)`
\* reads it
C23_Text(field) == IF field = Null THEN <<>> ELSE field[1]

\* `term` occurs, case-insensitively, in the category, name or description of p
C23_Occurs(term, p) ==
    \/ includes(toLowerCase(p.category), toLowerCase(term))
    \/ includes(toLowerCase(p.name), toLowerCase(term))
    \/ includes(toLowerCase(C23_Text(p.description)), toLowerCase(term))

\* the group's category or one of its item terms occurs in p
C23_ByCategoryOrItem(rec, p) ==
    \/ C23_Occurs(rec.category, p)
    \/ \E i \in DOMAIN rec.items : C23_Occurs(rec.items[i], p)

\* the group's category occurs in p
C24_ByCategory(rec, p) == C23_Occurs(rec.category, p)

\* the recommendations went to the matching with a non-empty list of products, so
\* each of them has its group, in order
C23_Matched ==
    /\ Resolved
    /\ call.read = "rows" /\ call.catalog # <<>>
    /\ C14_Filtered # <<>>
    /\ call.recommendations # <<>>

\* the product ids of a group
C23_Ids(group) == [k \in DOMAIN group.products |-> group.products[k].productId]

\* the ids of the first three rows that match, or of the first three rows when none
\* does
C23_Expected(rec, Match(_, _)) ==
    LET Hit(p) == Match(rec, p)
        hits == SelectSeq(C14_Filtered, Hit)
        rows == IF hits = <<>> THEN C14_Filtered ELSE hits
    IN  [k \in 1..(IF Len(rows) < 3 THEN Len(rows) ELSE 3) |-> Some(rows[k].id)]

\* C23: the products of a group are cut from the rows in which the group's category
\* or one of its item terms occurs, case-insensitively, in category, name or
\* description
C23_MatchByCategoryOrItemTerm ==
    C23_Matched =>
        /\ Len(call.suggestedProducts) = Len(call.recommendations)
        /\ \A r \in DOMAIN call.recommendations :
              C23_Ids(call.suggestedProducts[r])
                  = C23_Expected(call.recommendations[r], C23_ByCategoryOrItem)

----------------------------------------------------------------------------
(* The zone templates *)

\* s is `word`, which is in lower case, in some casing
C25_AnyCasingOf(s, word) ==
    /\ Len(s) = Len(word)
    /\ \A i \in DOMAIN s :
          \/ s[i] = word[i]
          \/ \E k \in DOMAIN LowerCase : LowerCase[k] = word[i] /\ UpperCase[k] = s[i]

\* the number of zones of the template the claim assigns to a roomType
C25_Zones(roomType) ==
    IF C25_AnyCasingOf(roomType, livingRoom) THEN 6
    ELSE IF C25_AnyCasingOf(roomType, bedroom) THEN 5
    ELSE 4

\* C25: any casing of "living room" selects the template of 6 zones, any casing of
\* "bedroom" the one of 5, every other roomType ("living-room" too) the default of
\* 4: the placement returns, the placements are as many as the template has zones,
\* or as there are products to place if these are fewer, and lie on its anchors in
\* order; every anchor of every template, and so every placement, has x and y
\* within 0..100
C25_TemplateByCaseInsensitiveRoomType ==
    /\ Len(zones(livingRoom)) = 6 /\ Len(zones(bedroom)) = 5 /\ Len(zones(<<>>)) = 4
    /\ \A key \in {livingRoom, bedroom, <<>>} :
          \A z \in DOMAIN zones(key) :
              /\ zones(key)[z].x >= 0 /\ zones(key)[z].x <= 100
              /\ zones(key)[z].y >= 0 /\ zones(key)[z].y <= 100
    /\ (call.fn = "resolver" /\ call.pc \in {"placed", "threw"}) =>
          LET n == C25_Zones(call.roomType)
              template == IF n = 6 THEN zones(livingRoom)
                          ELSE IF n = 5 THEN zones(bedroom) ELSE zones(<<>>)
              taken == Len(C19_Taken(call.suggestedProducts))
              placements == call.productPlacements
          IN  /\ call.pc = "placed"
              /\ Len(placements) = (IF taken < n THEN taken ELSE n)
              /\ \A k \in DOMAIN placements :
                    /\ placements[k].x = template[k].x
                    /\ placements[k].y = template[k].y
                    /\ placements[k].x >= 0 /\ placements[k].x <= 100
                    /\ placements[k].y >= 0 /\ placements[k].y <= 100

\* the same for every roomType but the two names that `zones` inherits
C25_ExceptInheritedNames ==
    toLowerCase(call.roomType) \notin {constructor, proto}
        => C25_TemplateByCaseInsensitiveRoomType

----------------------------------------------------------------------------
(* Groups without products *)

\* C29: every group the resolver returns, from the catalog matching and from the
\* virtual synthesis alike, holds at least one product
C29_NoGroupWithoutProducts ==
    Resolved =>
        \A g \in DOMAIN call.suggestedProducts :
            Len(call.suggestedProducts[g].products) >= 1

\* the same on the catalog-matching path alone
C29_NoGroupWithoutProductsFromCatalog ==
    (Resolved /\ call.read = "rows" /\ call.catalog # <<>>) =>
        \A g \in DOMAIN call.suggestedProducts :
            Len(call.suggestedProducts[g].products) >= 1

----------------------------------------------------------------------------
(* extractBestFrame *)

\* the call of extractBestFrame has returned or thrown
C26_Ended == call.fn = "extractBestFrame" /\ call.pc \in {"returned", "thrown"}

\* C26 as stated: when the probe succeeds there is one extraction, at
\* min(duration / 2, 5) seconds; when it fails there is one extraction, at 3
\* seconds, and the call throws if that one fails
C26_OneExtractionAtBestOrFallback ==
    C26_Ended =>
        /\ Len(call.attempts) = 1
        /\ call.attempts[1].timestamp =
                (IF call.probed # Null THEN BestTimestamp(call.duration)
                                       ELSE FallbackTimestamp)
        /\ (call.probed = Null /\ call.attempts[1].outcome = "throw")
                => call.pc = "thrown"

\* what the code does: when the probe succeeds the first extraction is at
\* min(duration / 2, 5) seconds and its frame is returned if it succeeds; when the
\* probe or that extraction fails there is exactly one more extraction, at 3
\* seconds; the call throws exactly when the extraction at 3 seconds fails
C26_FallbackAfterFailedProbeOrExtraction ==
    C26_Ended =>
        LET n == Len(call.attempts)
            last == call.attempts[n]
        IN  /\ n \in {1, 2}
            /\ call.probed = Null
                    => n = 1 /\ last.timestamp = FallbackTimestamp
            /\ call.probed # Null
                    => /\ call.attempts[1].timestamp = BestTimestamp(call.duration)
                       /\ n = 2 <=> call.attempts[1].outcome = "throw"
                       /\ n = 2 => last.timestamp = FallbackTimestamp
            /\ call.pc = "thrown"
                    <=> (last.timestamp = FallbackTimestamp /\ last.outcome = "throw"
                            /\ (call.probed # Null => n = 2))
            /\ call.pc = "returned"
                    => last.outcome = "ok" /\ call.frame = Some(last.timestamp)

----------------------------------------------------------------------------
(* Working files of the demo endpoint *)

\* request r runs the demo pipeline and has made its temp directory
C27_Working(r) ==
    /\ req[r].ep = "analyzeRoomVideo"
    /\ req[r].pc \in {"a323", "a327", "a331", "a334", "a339", "a358"}

\* the paths of request r: tempDir, videoPath, framePath, thumbnailPath
C27_Paths(r) ==
    {TempFile(req[r].ts, name) : name \in {".", "video", "analysis-frame.jpg", "thumbnail.jpg"}}

\* C27: two runs of the demo endpoint that are under way at the same time have no
\* path in common: temp directory, video, analysis frame and thumbnail of the one
\* are distinct from those of the other
C27_RunsShareNoWorkingFile ==
    \A r1, r2 \in Reqs :
        (r1 # r2 /\ C27_Working(r1) /\ C27_Working(r2))
            => C27_Paths(r1) \cap C27_Paths(r2) = {}

----------------------------------------------------------------------------
(* What a resolved run has stored *)

\* C28: when the run of analyzeRoomVideo for a video has resolved with
\* success: true, an analysis record of the video is in the store and the stored
\* status of the video is completed
C28_ResolvedRunHasStoredItsResult ==
    [][\A v \in VideoIds :
          (task[v].pc # "resolved" /\ task'[v].pc = "resolved")
              => /\ \E i \in DOMAIN videoAnalyses' : videoAnalyses'[i].videoId = v
                 /\ v \in DOMAIN videos'
                 /\ videos'[v].status = "completed"]_vars

----------------------------------------------------------------------------
(* Who gets an asset from the polling queries *)

\* C30: the polling query gives an asset and its analysis to the owner alone: a
\* caller who is not the asset's userId gets no row and no analysis, and the answer
\* an asset that does not exist would get, so that the answer to a caller does not
\* depend on the assets of other users.  Here: photo.getPhotoAnalysis of
\* server/routers.ts
C30_PhotoOnlyToItsOwner ==
    (/\ call.fn = "getPhotoAnalysis" /\ call.pc = "responded"
     /\ call.photoId \in DOMAIN call.photos
     /\ call.photos[call.photoId].userId # call.caller)
        => /\ call.code \in {"NOT_FOUND", "INTERNAL_SERVER_ERROR"}
           /\ call.photo = Null
           /\ ~call.analysis

\* the same for video.getVideoAnalysis (and photo.getPhotoAnalysis of the router
\* that reads `videos`), which compares the row's userId with ctx.user.id
C30_VideoOnlyToItsOwner ==
    (/\ poll.pc = "responded"
     /\ \/ poll.videoId \notin DOMAIN videos
        \/ videos[poll.videoId].userId # poll.user)
        => /\ poll.code \in {"NOT_FOUND", "INTERNAL_SERVER_ERROR"}
           /\ poll.status = "none"
           /\ ~poll.analysis

====
